---- MODULE Spec2Model ----
(***************************************************************************)
(* CredBazar form collector (server/test-smtp.js): the OTP table, the      *)
(* /submit-loan handler, and the concurrency-limited, retrying e-mail      *)
(* dispatcher (acquireEmailSlot / releaseEmailSlot / sendWithRetry /       *)
(* sendDailyEmailForDate).                                                 *)
(*                                                                         *)
(* Node.js runs one handler at a time until it reaches an await on real    *)
(* I/O (writeFile, sendMail, setTimeout); every action below is one such   *)
(* run-to-suspension segment of a handler.                                 *)
(***************************************************************************)
EXTENDS Integers, Sequences, FiniteSets, TLC

\* ---------------------------------------------------------------- bounds
GateCallers == 3         \* concurrent cron / send-today dispatches (SpecGate)
RetryCallers == 1        \* dispatches in progress in SpecRetry
MaxRetries == 3          \* largest EMAIL_RETRIES explored by SpecRetry
OtpSubmitters == 1       \* /submit-loan requests in progress in SpecOtp
Submitters == 2          \* concurrent /submit-loan requests (SpecSubmit)
MaxConcurrency == 2      \* largest EMAIL_CONCURRENCY explored
MaxHandoffs == 2         \* the history counter handoffs stops counting here
MaxSuccesses == 2        \* the history counter successes stops counting here
MaxWrong == 4            \* the history counter wrong stops counting here
LedgerCallers == 1       \* requests in progress in SpecLedger
RepairCallers == 1       \* /repair-xlsx requests in progress in SpecRepair
MaxCols == 3             \* widest header row of a file found in DATA_DIR (SpecRepair)
MaxRows == 1             \* most data rows of a file found in DATA_DIR (SpecRepair)

\* Math.max
MathMax(a, b) == IF a >= b THEN a ELSE b

NumCallers ==
  MathMax(MathMax(MathMax(GateCallers, RetryCallers), MathMax(Submitters, OtpSubmitters)),
          MathMax(LedgerCallers, RepairCallers))
Callers == 1..NumCallers

\* ------------------------------------------------------------- constants
OTP_RESEND_COOLDOWN == 2 * 60 * 1000
OTP_EXPIRY == 10 * 60 * 1000
MAX_OTP_ATTEMPTS == 3

\* Errors a sendMail attempt can reject with.
Errors == {"ECONNREFUSED", "ETIMEDOUT"}

VARIABLES
  EMAIL_CONCURRENCY,  \* Number(process.env.EMAIL_CONCURRENCY || 2)
  EMAIL_RETRIES,      \* Number(process.env.EMAIL_RETRIES || 3)
  smtpConfigured,     \* SMTP_HOST, SMTP_USER and SMTP_PASS all set in env
  emailActive,        \* let emailActive
  emailQueue,         \* const emailQueue: the queued resolve callbacks, by caller
  pc,                 \* where each handler invocation is suspended
  kind,               \* which trigger the invocation is: cron, send-today, submit
  mobile,             \* req.body.mobile of a /submit-loan invocation
  i,                  \* sendWithRetry: loop variable
  lastErr,            \* sendWithRetry: lastErr
  tries,              \* history: how each sendMail call of the current sendWithRetry ended
  waits,              \* history: the sleep(backoff) durations of the current sendWithRetry
  handoffs,           \* history: waiters resumed by releaseEmailSlot, up to MaxHandoffs
  out,                \* value sendDailyEmailForDate returned (or that it threw)
  workbook,           \* appendToDailyExcel: the workbook awaiting writeFile
  xlsx,               \* today's file in DATA_DIR
  otpStore,           \* const otpStore = new Map()
  now,                \* Date.now()
  accepted,           \* history: submissions appended per mobile since its last issuance
  wrong,              \* history: verifies with another code than the stored one, per issuance
  successes,          \* history: successful verifies per issuance, up to MaxSuccesses
  resp                \* the HTTP response each invocation wrote when it finished

vars == <<EMAIL_CONCURRENCY, EMAIL_RETRIES, smtpConfigured, emailActive, emailQueue,
          pc, kind, mobile, i, lastErr, tries, waits, handoffs, out, workbook, xlsx,
          otpStore, now, accepted, wrong, successes, resp>>

cfgVars == <<EMAIL_CONCURRENCY, EMAIL_RETRIES, smtpConfigured>>
gateVars == <<emailActive, emailQueue>>
retryVars == <<i, lastErr, tries, waits>>
otpVars == <<otpStore, accepted, wrong, successes>>

\* ------------------------------------------------------------------ data
Digits == {"0", "1", "2", "3", "4", "5", "6", "7", "8", "9"}
Whitespace == {" "}

\* Strings are sequences of one-character strings.
Rep(c, n) == [k \in 1..n |-> c]

\* /^[0-9]{10}$/.test(mobile)
IsValidMobile(m) == Len(m) = 10 /\ \A k \in 1..Len(m) : m[k] \in Digits

\* String.prototype.trim
RECURSIVE TrimLeft(_)
TrimLeft(s) == IF s # <<>> /\ Head(s) \in Whitespace THEN TrimLeft(Tail(s)) ELSE s
RECURSIVE TrimRight(_)
TrimRight(s) ==
  IF s # <<>> /\ s[Len(s)] \in Whitespace THEN TrimRight(SubSeq(s, 1, Len(s) - 1)) ELSE s
Trim(s) == TrimRight(TrimLeft(s))

\* Math.ceil(a / b) for a >= 0, b > 0
Ceil(a, b) == (a + b - 1) \div b

ToSet(s) == {s[k] : k \in 1..Len(s)}

\* ------------------------------------------------------------ the ledger
\* A string literal of the source, as a sequence of characters.
K_mobile == <<"m", "o", "b", "i", "l", "e">>
K_Mobile == <<"M", "o", "b", "i", "l", "e">>
K_added_at == <<"a", "d", "d", "e", "d", "_", "a", "t">>
K_LoanAmount == <<"L", "o", "a", "n", "A", "m", "o", "u", "n", "t">>
K_MonthlyIncome == <<"M", "o", "n", "t", "h", "l", "y", "I", "n", "c", "o", "m", "e">>
K_Email == <<"E", "m", "a", "i", "l">>
K_PAN1 == <<"P", "A", "N", "1">>
K_PAN == <<"P", "A", "N">>
K_DOB == <<"D", "O", "B">>
K_company == <<"c", "o", "m", "p", "a", "n", "y">>
K_Company == <<"C", "o", "m", "p", "a", "n", "y">>
K_City == <<"C", "i", "t", "y">>
K_Pincode == <<"P", "i", "n", "c", "o", "d", "e">>
K_Occupation == <<"O", "c", "c", "u", "p", "a", "t", "i", "o", "n">>
EmptyStr == <<>>

\* A JS object is the sequence of its own keys in insertion order with their
\* values: << <<key, value>>, ... >>, keys unique.
HasKey(obj, key) == \E k \in 1..Len(obj) : obj[k][1] = key
Get(obj, key) == obj[CHOOSE k \in 1..Len(obj) : obj[k][1] = key][2]

\* obj[key] = value: overwrite in place, or insert at the end
Put(obj, key, value) ==
  IF HasKey(obj, key)
  THEN [k \in 1..Len(obj) |-> IF obj[k][1] = key THEN <<key, value>> ELSE obj[k]]
  ELSE Append(obj, <<key, value>>)

\* const FIELD_MAP: incoming name -> column header
FIELD_MAP ==
  << <<K_LoanAmount, K_LoanAmount>>,
     <<K_MonthlyIncome, K_MonthlyIncome>>,
     <<K_Mobile, K_Mobile>>,
     <<K_Email, K_Email>>,
     <<K_PAN1, K_PAN>>,
     <<K_DOB, K_DOB>>,
     <<K_company, K_Company>>,
     <<K_City, K_City>>,
     <<K_Pincode, K_Pincode>>,
     <<K_Occupation, K_Occupation>> >>

\* function normalizeRecord(raw)
RECURSIVE normalizeFrom(_, _, _)
normalizeFrom(raw, k, acc) ==
  IF k > Len(raw) THEN acc
  ELSE LET key == raw[k][1]
           target == IF HasKey(FIELD_MAP, key) THEN Get(FIELD_MAP, key)
                     ELSE IF HasKey(FIELD_MAP, Trim(key)) THEN Get(FIELD_MAP, Trim(key))
                     ELSE key
       IN normalizeFrom(raw, k + 1, Put(acc, target, raw[k][2]))
normalizeRecord(raw) == normalizeFrom(raw, 1, <<>>)

\* new Date().toISOString() at instant t
toISOString(t) == <<"ISO", t>>

\* record[h] || '' : an absent key or an empty value gives ''
OrEmpty(obj, h) ==
  IF HasKey(obj, h) /\ Get(obj, h) # EmptyStr THEN Get(obj, h) ELSE EmptyStr

NoFile == [exists |-> FALSE, headers |-> <<>>, rows |-> <<>>]

\* appendToDailyExcel up to its await: the workbook handed to writeFile.
\* The read-and-merge branch is disabled in the source (if (false && ...)), so
\* a new single-row worksheet is built on every call.
appendToDailyExcel(record, t) ==
  LET NonEmpty(h) == h # EmptyStr
      trimmed == [k \in 1..Len(record) |-> Trim(record[k][1])]
      headers == Append(SelectSeq(trimmed, NonEmpty), K_added_at)
      rowValues == [k \in 1..Len(headers) |->
                      IF headers[k] = K_added_at THEN toISOString(t)
                      ELSE OrEmpty(record, headers[k])]
  IN [exists |-> TRUE, headers |-> headers, rows |-> <<rowValues>>]

\* A file left in DATA_DIR by an earlier run of the server.
PriorFile == appendToDailyExcel(normalizeRecord(<< <<K_mobile, Rep("7", 10)>> >>), 0)
NoBook == NoFile

\* row.values[k]: the cell in column k of a row, '' where the row has none
CellAt(row, k) == IF k <= Len(row) THEN row[k] ELSE EmptyStr

\* repairXlsxFile: (firstRowVals[1] is null, '' or undefined) && firstRowVals[2]
shiftDetected(file) ==
  file.exists /\ CellAt(file.headers, 1) = EmptyStr /\ CellAt(file.headers, 2) # EmptyStr

\* repairXlsxFile: oldHeaders.map(h => String(h).trim()).filter(h => h !== '')
newHeaders(oldHeaders) ==
  LET NonEmpty(h) == h # EmptyStr
  IN SelectSeq([k \in 1..Len(oldHeaders) |-> Trim(oldHeaders[k])], NonEmpty)

\* repairXlsxFile: const shift = oldHeaders.length === newHeaders.length + 1 ? 1 : 0
shiftOf(oldHeaders, headers) == IF Len(oldHeaders) = Len(headers) + 1 THEN 1 ELSE 0

\* repairXlsxFile: vals.slice(shift), then push('') while shorter than the header
shiftRow(vals, shift, width) ==
  LET shifted == SubSeq(vals, shift + 1, Len(vals))
  IN IF Len(shifted) >= width THEN shifted
     ELSE shifted \o [k \in 1..(width - Len(shifted)) |-> EmptyStr]

\* async function repairXlsxFile(filePath) on a workbook of one worksheet:
\* whether it changed the sheet, and the sheet it then writes.  The rebuilt
\* worksheet gets its header in row 1 and the data rows by addRow after it;
\* with no header cell written, addRow starts at row 1.
repairXlsxFile(file) ==
  IF ~shiftDetected(file) THEN [changed |-> FALSE, file |-> file]
  ELSE LET oldHeaders == file.headers
           headers == newHeaders(oldHeaders)
           shift == shiftOf(oldHeaders, headers)
           rows == [r \in 1..Len(file.rows) |-> shiftRow(file.rows[r], shift, Len(headers))]
       IN [changed |-> TRUE,
           file |-> IF headers = <<>> /\ rows # <<>>
                    THEN [exists |-> TRUE, headers |-> Head(rows), rows |-> Tail(rows)]
                    ELSE [exists |-> TRUE, headers |-> headers, rows |-> rows]]

\* ------------------------------------------------------ the admission gate
\* function acquireEmailSlot(), called by p: the gate afterwards and the
\* callers whose promise it resolved.
acquireEmailSlot_OffByOne(active, queue, p) ==
  IF active <= EMAIL_CONCURRENCY
  THEN [active |-> active + 1, queue |-> queue, resolved |-> {p}]
  ELSE [active |-> active, queue |-> Append(queue, p), resolved |-> {}]

acquireEmailSlot(active, queue, p) ==
  IF active < EMAIL_CONCURRENCY
  THEN [active |-> active + 1, queue |-> queue, resolved |-> {p}]
  ELSE [active |-> active, queue |-> Append(queue, p), resolved |-> {}]

\* function releaseEmailSlot()
releaseEmailSlot_Lifo(active, queue) ==
  LET freed == MathMax(0, active - 1)
  IN IF Len(queue) > 0
     THEN [active |-> freed + 1, queue |-> SubSeq(queue, 1, Len(queue) - 1),
           resolved |-> {queue[Len(queue)]}]
     ELSE [active |-> freed, queue |-> queue, resolved |-> {}]

releaseEmailSlot_NoHandoff(active, queue) ==
  [active |-> MathMax(0, active - 1), queue |-> queue, resolved |-> {}]

releaseEmailSlot_KeepsWaiter(active, queue) ==
  LET freed == MathMax(0, active - 1)
  IN IF Len(queue) > 0
     THEN [active |-> freed + 1, queue |-> queue, resolved |-> {}]
     ELSE [active |-> freed, queue |-> queue, resolved |-> {}]

releaseEmailSlot(active, queue) ==
  LET freed == MathMax(0, active - 1)
  IN IF Len(queue) > 0
     THEN [active |-> freed + 1, queue |-> Tail(queue), resolved |-> {Head(queue)}]
     ELSE [active |-> freed, queue |-> queue, resolved |-> {}]

\* No slot involved: the gate as it is.
GateAsIs == [active |-> emailActive, queue |-> emailQueue, resolved |-> {}]

\* const backoff = Math.pow(2, i) * 1000
backoff_Constant(n) == 1000

backoff(n) == (2 ^ n) * 1000

\* -------------------------------------------------------------- outcomes
\* What sendDailyEmailForDate returned, or that it threw.
NoOut == [tag |-> "none", ok |-> FALSE, error |-> "none"]
OutNoFile == [tag |-> "returned", ok |-> FALSE, error |-> "No file"]
OutSent == [tag |-> "returned", ok |-> TRUE, error |-> "none"]
OutFailed(e) == [tag |-> "returned", ok |-> FALSE, error |-> e]
OutThrew == [tag |-> "threw", ok |-> FALSE, error |-> "SMTP credentials missing in env"]

\* res.status(status).json({ok, error | message, email, remainingTime})
Response(op, status, ok, error, email, remaining) ==
  [op |-> op, status |-> status, ok |-> ok, error |-> error,
   email |-> email, remainingTime |-> remaining]
NoResponse == Response("none", 0, FALSE, "none", "absent", 0)

\* The response the caller of sendDailyEmailForDate writes once it has o
\* (the cron callback has nobody to answer).
Respond(k, o) ==
  IF k = "send-today"
  THEN IF o.tag = "threw" THEN Response(k, 500, FALSE, o.error, "absent", 0)
       ELSE Response(k, 200, o.ok, o.error, "absent", 0)
  ELSE IF k = "submit"
  THEN IF o.tag = "threw" THEN Response(k, 200, TRUE, o.error, "false", 0)
       ELSE Response(k, 200, TRUE, "none", "true", 0)
  ELSE NoResponse

\* String(result.error)
String(e) == <<"Error: ", e>>

\* --------------------------------------------------------- the OTP table
\* Date.now() as the handlers read it: the instants around the cooldown and
\* expiry thresholds.
Instants == {0, 500, 1000, 120000, 600000, 600001}

Mobile1 == Rep("9", 10)
OtpMobiles == {Mobile1}
\* req.body.mobile: a valid number, one digit short, not digits, missing
MobileInputs == OtpMobiles \cup {Rep("9", 9), Rep("x", 10), <<>>}

\* function generateOTP(length = 6): a 6-digit decimal string
Code1 == <<"1", "2", "3", "4", "5", "6">>
Code2 == <<"6", "5", "4", "3", "2", "1">>
generateOTP == {Code1, Code2}
\* req.body.otp: a code, a code typed with blanks around it, nothing
OtpInputs == generateOTP \cup {<<" ">> \o Code1 \o <<" ">>, <<>>}

\* otpStore.get(m) !== undefined
Has(store, m) == m \in DOMAIN store
\* otpStore.set(m, d)
MapSet(store, m, d) == [k \in DOMAIN store \cup {m} |-> IF k = m THEN d ELSE store[k]]
\* otpStore.delete(m)
MapDelete(store, m) == [k \in DOMAIN store \ {m} |-> store[k]]

\* /send-otp: timeSinceLastOTP < OTP_RESEND_COOLDOWN
inCooldown(d, t) == t - d.timestamp < OTP_RESEND_COOLDOWN
\* /send-otp: Math.ceil((OTP_RESEND_COOLDOWN - timeSinceLastOTP) / 1000)
remainingSeconds_Floor(d, t) == (OTP_RESEND_COOLDOWN - (t - d.timestamp)) \div 1000

remainingSeconds(d, t) == Ceil(OTP_RESEND_COOLDOWN - (t - d.timestamp), 1000)

\* /send-otp: the record otpStore.set(mobile, {...}) stores
freshRecord_Verified(otp, t) ==
  [otp |-> otp, timestamp |-> t, attempts |-> 0, verified |-> TRUE]

freshRecord(otp, t) ==
  [otp |-> otp, timestamp |-> t, attempts |-> 0, verified |-> FALSE]

\* app.post('/send-otp', ...) with the code generateOTP() returns: the Map
\* afterwards and the response. sendOTPViaThirdParty only logs and succeeds.
sendOtp(store, m, otp, t) ==
  IF m = <<>> \/ ~IsValidMobile(m)
  THEN [store |-> store,
        res |-> Response("send-otp", 400, FALSE, "Invalid mobile number", "absent", 0)]
  ELSE IF Has(store, m) /\ inCooldown(store[m], t)
  THEN [store |-> store,
        res |-> Response("send-otp", 429, FALSE, "Please wait", "absent",
                         remainingSeconds(store[m], t))]
  ELSE [store |-> MapSet(store, m, freshRecord(otp, t)),
        res |-> Response("send-otp", 200, TRUE, "OTP sent successfully", "absent", 0)]

\* /verify-otp: Date.now() - otpData.timestamp > 10 * 60 * 1000
isExpired(d, t) == t - d.timestamp > OTP_EXPIRY
\* /verify-otp: otpData.attempts >= 3
tooManyAttempts(d) == d.attempts >= MAX_OTP_ATTEMPTS
\* /verify-otp: otpData.otp !== otp.trim()
mismatch_NoTrim(d, otp) == d.otp # otp

mismatch(d, otp) == d.otp # Trim(otp)
\* /verify-otp: otpData.attempts += 1
countAttempt_Forgets(d) == d

countAttempt(d) == [d EXCEPT !.attempts = @ + 1]

\* app.post('/verify-otp', ...): the Map afterwards and the response
verifyOtp(store, m, otp, t) ==
  IF m = <<>> \/ otp = <<>>
  THEN [store |-> store,
        res |-> Response("verify-otp", 400, FALSE, "Mobile and OTP required", "absent", 0)]
  ELSE IF ~Has(store, m)
  THEN [store |-> store,
        res |-> Response("verify-otp", 400, FALSE, "OTP expired or not sent", "absent", 0)]
  ELSE IF isExpired(store[m], t)
  THEN [store |-> MapDelete(store, m),
        res |-> Response("verify-otp", 400, FALSE, "OTP expired", "absent", 0)]
  ELSE IF tooManyAttempts(store[m])
  THEN [store |-> MapDelete(store, m),
        res |-> Response("verify-otp", 400, FALSE, "Too many attempts. Request new OTP",
                         "absent", 0)]
  ELSE IF mismatch(store[m], otp)
  THEN [store |-> MapSet(store, m, countAttempt(store[m])),
        res |-> Response("verify-otp", 400, FALSE, "Invalid OTP", "absent", 0)]
  ELSE [store |-> MapSet(store, m, [store[m] EXCEPT !.verified = TRUE]),
        res |-> Response("verify-otp", 200, TRUE, "OTP verified successfully", "absent", 0)]

\* /submit-loan: !otpData || !otpData.verified
notVerified(store, m) == ~Has(store, m) \/ ~store[m].verified

\* ------------------------------------------------------------------ Init

\* The state after module initialisation, files being what DATA_DIR can hold
\* for today.
InitWith(files) ==
  /\ EMAIL_CONCURRENCY \in 1..MaxConcurrency
  /\ EMAIL_RETRIES \in 1..MaxRetries
  /\ smtpConfigured \in BOOLEAN
  /\ emailActive = 0
  /\ emailQueue = <<>>
  /\ pc = [p \in Callers |-> "idle"]
  /\ kind = [p \in Callers |-> "none"]
  /\ mobile = [p \in Callers |-> <<>>]
  /\ i = [p \in Callers |-> 0]
  /\ lastErr = [p \in Callers |-> "null"]
  /\ tries = [p \in Callers |-> <<>>]
  /\ waits = [p \in Callers |-> <<>>]
  /\ handoffs = 0
  /\ out = [p \in Callers |-> NoOut]
  /\ workbook = [p \in Callers |-> NoBook]
  /\ xlsx \in files
  /\ otpStore = <<>>
  /\ now = 0
  /\ accepted = [m \in OtpMobiles |-> 0]
  /\ wrong = [m \in OtpMobiles |-> 0]
  /\ successes = [m \in OtpMobiles |-> 0]
  /\ resp = [p \in Callers |-> NoResponse]

Init == InitWith({NoFile, PriorFile})

\* ------------------------------------------------- sendDailyEmailForDate
\* p's sendDailyEmailForDate returns or throws o, the gate becoming g (the
\* finally block's releaseEmailSlot when p held a slot); p's caller of kind k
\* then writes its response.  A waiter resolved by the release goes on to its
\* first sendMail.
Settle(p, k, o, g) ==
  /\ emailActive' = g.active
  /\ emailQueue' = g.queue
  /\ pc' = [r \in Callers |-> IF r = p THEN "done"
                               ELSE IF r \in g.resolved THEN "sending" ELSE pc[r]]
  /\ out' = [out EXCEPT ![p] = o]
  /\ resp' = [resp EXCEPT ![p] = Respond(k, o)]
  /\ handoffs' = IF g.resolved = {} \/ handoffs = MaxHandoffs THEN handoffs ELSE handoffs + 1

\* sendDailyEmailForDate from its entry to its first suspension, file being
\* what fs.existsSync finds.
EnterDispatch_SlotBeforeCheck(p, k, file) ==
  IF ~file.exists
  THEN Settle(p, k, OutNoFile, acquireEmailSlot(emailActive, emailQueue, p))
  ELSE IF ~smtpConfigured THEN Settle(p, k, OutThrew, GateAsIs)
  ELSE LET g == acquireEmailSlot(emailActive, emailQueue, p)
       IN /\ emailActive' = g.active
          /\ emailQueue' = g.queue
          /\ pc' = [pc EXCEPT ![p] = IF p \in g.resolved THEN "sending" ELSE "waiting"]
          /\ UNCHANGED <<handoffs, out, resp>>

EnterDispatch(p, k, file) ==
  IF ~file.exists THEN Settle(p, k, OutNoFile, GateAsIs)
  ELSE IF ~smtpConfigured THEN Settle(p, k, OutThrew, GateAsIs)
  ELSE LET g == acquireEmailSlot(emailActive, emailQueue, p)
       IN /\ emailActive' = g.active
          /\ emailQueue' = g.queue
          /\ pc' = [pc EXCEPT ![p] = IF p \in g.resolved THEN "sending" ELSE "waiting"]
          /\ UNCHANGED <<handoffs, out, resp>>

\* cron.schedule('59 23 * * *', ...)
StartCron(p) ==
  /\ pc[p] = "idle"
  /\ kind' = [kind EXCEPT ![p] = "cron"]
  /\ EnterDispatch(p, "cron", xlsx)
  /\ UNCHANGED <<cfgVars, mobile, retryVars, workbook, xlsx, otpVars, now>>

\* app.post('/send-today', ...); keyOk: SEND_TRIGGER_KEY unset or matched
StartSendToday(p, keyOk) ==
  /\ pc[p] = "idle"
  /\ IF keyOk
     THEN /\ kind' = [kind EXCEPT ![p] = "send-today"]
          /\ EnterDispatch(p, "send-today", xlsx)
     ELSE /\ pc' = [pc EXCEPT ![p] = "done"]
          /\ kind' = [kind EXCEPT ![p] = "send-today"]
          /\ resp' = [resp EXCEPT ![p] =
                        Response("send-today", 403, FALSE, "Forbidden", "absent", 0)]
          /\ UNCHANGED <<gateVars, handoffs, out>>
  /\ UNCHANGED <<cfgVars, mobile, retryVars, workbook, xlsx, otpVars, now>>

\* sendWithRetry: transporter.sendMail resolves
SendOk(p) ==
  /\ pc[p] = "sending"
  /\ tries' = [tries EXCEPT ![p] = Append(@, "ok")]
  /\ Settle(p, kind[p], OutSent, releaseEmailSlot(emailActive, emailQueue))
  /\ UNCHANGED <<cfgVars, kind, mobile, i, lastErr, waits, workbook, xlsx, otpVars, now>>

\* sendWithRetry: transporter.sendMail rejects with e; sleep(backoff) starts
SendFail(p, e) ==
  /\ pc[p] = "sending"
  /\ tries' = [tries EXCEPT ![p] = Append(@, e)]
  /\ lastErr' = [lastErr EXCEPT ![p] = e]
  /\ waits' = [waits EXCEPT ![p] = Append(@, backoff(i[p]))]
  /\ pc' = [pc EXCEPT ![p] = "sleeping"]
  /\ UNCHANGED <<cfgVars, gateVars, kind, mobile, i, handoffs, out, workbook, xlsx,
                 otpVars, now, resp>>

\* sendWithRetry: for (...; i < attempts; i++)
loopContinues_OneMore(n, attempts) == n <= attempts

loopContinues(n, attempts) == n < attempts

\* sendWithRetry: the sleep ends; the loop goes round or gives up
Wake_NoFinally(p) ==
  /\ pc[p] = "sleeping"
  /\ i' = [i EXCEPT ![p] = @ + 1]
  /\ IF loopContinues(i[p] + 1, EMAIL_RETRIES)
     THEN /\ pc' = [pc EXCEPT ![p] = "sending"]
          /\ UNCHANGED <<gateVars, handoffs, out, resp>>
     ELSE Settle(p, kind[p], OutFailed(String(lastErr[p])), GateAsIs)
  /\ UNCHANGED <<cfgVars, kind, mobile, lastErr, tries, waits, workbook, xlsx, otpVars, now>>

Wake(p) ==
  /\ pc[p] = "sleeping"
  /\ i' = [i EXCEPT ![p] = @ + 1]
  /\ IF loopContinues(i[p] + 1, EMAIL_RETRIES)
     THEN /\ pc' = [pc EXCEPT ![p] = "sending"]
          /\ UNCHANGED <<gateVars, handoffs, out, resp>>
     ELSE Settle(p, kind[p], OutFailed(String(lastErr[p])),
                 releaseEmailSlot(emailActive, emailQueue))
  /\ UNCHANGED <<cfgVars, kind, mobile, lastErr, tries, waits, workbook, xlsx, otpVars, now>>

\* The invocation is over; its slot in the model is free for another request.
Reset(p) ==
  /\ pc[p] = "done"
  /\ pc' = [pc EXCEPT ![p] = "idle"]
  /\ kind' = [kind EXCEPT ![p] = "none"]
  /\ mobile' = [mobile EXCEPT ![p] = <<>>]
  /\ i' = [i EXCEPT ![p] = 0]
  /\ lastErr' = [lastErr EXCEPT ![p] = "null"]
  /\ tries' = [tries EXCEPT ![p] = <<>>]
  /\ waits' = [waits EXCEPT ![p] = <<>>]
  /\ out' = [out EXCEPT ![p] = NoOut]
  /\ resp' = [resp EXCEPT ![p] = NoResponse]
  /\ UNCHANGED <<cfgVars, gateVars, handoffs, workbook, xlsx, otpVars, now>>

\* The dispatcher under cron and /send-today callers.
\* One attempt per send here; the retry loop is SpecRetry's subject.
InitGate == Init /\ EMAIL_RETRIES = 1
NextGate ==
  \/ \E p \in 1..GateCallers : StartCron(p)
  \/ \E p \in 1..GateCallers, keyOk \in BOOLEAN : StartSendToday(p, keyOk)
  \/ \E p \in 1..GateCallers : SendOk(p)
  \/ \E p \in 1..GateCallers, e \in Errors : SendFail(p, e)
  \/ \E p \in 1..GateCallers : Wake(p)
  \/ \E p \in 1..GateCallers : Reset(p)
SpecGate == InitGate /\ [][NextGate]_vars

\* ------------------------------------------------------ the OTP handlers
procVars == <<pc, kind, mobile, retryVars, out, workbook, resp>>

\* Time passes: Date.now() reaches t.
Tick(t) ==
  /\ t > now
  /\ now' = t
  /\ UNCHANGED <<cfgVars, gateVars, handoffs, procVars, xlsx, otpVars>>

\* POST /send-otp
SendOtp(m) ==
  \E otp \in generateOTP :
    LET r == sendOtp(otpStore, m, otp, now)
        issued == r.res.ok
    IN /\ otpStore' = r.store
       /\ accepted' = IF issued THEN [accepted EXCEPT ![m] = 0] ELSE accepted
       /\ wrong' = IF issued THEN [wrong EXCEPT ![m] = 0] ELSE wrong
       /\ successes' = IF issued THEN [successes EXCEPT ![m] = 0] ELSE successes
       /\ UNCHANGED <<cfgVars, gateVars, handoffs, procVars, xlsx, now>>

\* POST /verify-otp
VerifyOtp(m, otp) ==
  LET r == verifyOtp(otpStore, m, otp, now)
      against == otp # <<>> /\ Has(otpStore, m)
  IN /\ otpStore' = r.store
     /\ wrong' = IF against /\ Trim(otp) # otpStore[m].otp /\ wrong[m] < MaxWrong
                 THEN [wrong EXCEPT ![m] = @ + 1] ELSE wrong
     /\ successes' = IF against /\ r.res.ok /\ successes[m] < MaxSuccesses
                     THEN [successes EXCEPT ![m] = @ + 1] ELSE successes
     /\ UNCHANGED <<cfgVars, gateVars, handoffs, procVars, xlsx, now, accepted>>

\* req.body of a /submit-loan request for mobile m
Body(m) == << <<K_mobile, m>> >>

\* const { mobile } = req.body
mobileOf(body) == IF HasKey(body, K_mobile) THEN Get(body, K_mobile) ELSE <<>>

\* POST /submit-loan with req.body = body, up to the await inside
\* appendToDailyExcel
StartSubmitWith(p, body) ==
  LET m == mobileOf(body)
  IN
  /\ pc[p] = "idle"
  /\ kind' = [kind EXCEPT ![p] = "submit"]
  /\ IF notVerified(otpStore, m)
     THEN /\ pc' = [pc EXCEPT ![p] = "done"]
          /\ resp' = [resp EXCEPT ![p] =
                        Response("submit", 400, FALSE, "Mobile number not verified",
                                 "absent", 0)]
          /\ UNCHANGED <<mobile, workbook>>
     ELSE /\ pc' = [pc EXCEPT ![p] = "writing"]
          /\ mobile' = [mobile EXCEPT ![p] = m]
          /\ workbook' = [workbook EXCEPT ![p] = appendToDailyExcel(normalizeRecord(body), now)]
          /\ UNCHANGED resp
  /\ UNCHANGED <<cfgVars, gateVars, handoffs, retryVars, out, xlsx, otpVars, now>>

\* POST /submit-loan carrying only the mobile number
StartSubmit(p, m) == StartSubmitWith(p, Body(m))

\* /submit-loan: workbook.xlsx.writeFile resolves; the OTP is cleared and the
\* day's file is dispatched
WriteDone(p) ==
  /\ pc[p] = "writing"
  /\ xlsx' = workbook[p]
  /\ workbook' = [workbook EXCEPT ![p] = NoBook]
  /\ otpStore' = MapDelete(otpStore, mobile[p])
  /\ accepted' = [accepted EXCEPT ![mobile[p]] = @ + 1]
  /\ EnterDispatch(p, "submit", workbook[p])
  /\ UNCHANGED <<cfgVars, kind, mobile, retryVars, now, wrong, successes>>

\* /submit-loan: workbook.xlsx.writeFile rejects; the handler answers 500
WriteFail(p) ==
  /\ pc[p] = "writing"
  /\ workbook' = [workbook EXCEPT ![p] = NoBook]
  /\ pc' = [pc EXCEPT ![p] = "done"]
  /\ resp' = [resp EXCEPT ![p] =
                Response("submit", 500, FALSE, "write failed", "absent", 0)]
  /\ UNCHANGED <<cfgVars, gateVars, handoffs, kind, mobile, retryVars, out, xlsx, otpVars, now>>

\* The OTP table over time, with /submit-loan consuming verified records;
\* one attempt per send.
InitOtp == Init /\ EMAIL_RETRIES = 1
NextOtp ==
  \/ \E t \in Instants : Tick(t)
  \/ \E m \in MobileInputs : SendOtp(m)
  \/ \E m \in MobileInputs, otp \in OtpInputs : VerifyOtp(m, otp)
  \/ \E p \in 1..OtpSubmitters, m \in MobileInputs : StartSubmit(p, m)
  \/ \E p \in 1..OtpSubmitters : WriteDone(p)
  \/ \E p \in 1..OtpSubmitters : WriteFail(p)
  \/ \E p \in 1..OtpSubmitters : SendOk(p)
  \/ \E p \in 1..OtpSubmitters, e \in Errors : SendFail(p, e)
  \/ \E p \in 1..OtpSubmitters : Wake(p)
  \/ \E p \in 1..OtpSubmitters : Reset(p)
SpecOtp == InitOtp /\ [][NextOtp]_vars

\* Concurrent /submit-loan requests within one instant; one attempt per send.
InitSubmit == Init /\ EMAIL_RETRIES = 1
NextSubmit ==
  \/ \E m \in MobileInputs : SendOtp(m)
  \/ \E m \in MobileInputs, otp \in OtpInputs : VerifyOtp(m, otp)
  \/ \E p \in 1..Submitters, m \in MobileInputs : StartSubmit(p, m)
  \/ \E p \in 1..Submitters : WriteDone(p)
  \/ \E p \in 1..Submitters : WriteFail(p)
  \/ \E p \in 1..Submitters : SendOk(p)
  \/ \E p \in 1..Submitters, e \in Errors : SendFail(p, e)
  \/ \E p \in 1..Submitters : Wake(p)
  \/ \E p \in 1..Submitters : Reset(p)
SpecSubmit == InitSubmit /\ [][NextSubmit]_vars

\* sendWithRetry under every EMAIL_RETRIES up to MaxRetries.
NextRetry ==
  \/ \E p \in 1..RetryCallers : StartCron(p)
  \/ \E p \in 1..RetryCallers, keyOk \in BOOLEAN : StartSendToday(p, keyOk)
  \/ \E p \in 1..RetryCallers : SendOk(p)
  \/ \E p \in 1..RetryCallers, e \in Errors : SendFail(p, e)
  \/ \E p \in 1..RetryCallers : Wake(p)
  \/ \E p \in 1..RetryCallers : Reset(p)
SpecRetry == Init /\ [][NextRetry]_vars

\* SpecGate with every pending sendMail resolving and every timer firing.
FairGate ==
  \A p \in 1..GateCallers :
    /\ WF_vars(SendOk(p) \/ \E e \in Errors : SendFail(p, e))
    /\ WF_vars(Wake(p))
SpecGateFair == SpecGate /\ FairGate

\* ------------------------------------------------------------ /repair-xlsx
\* res.json({ ok: true, results: [{ file, repaired | error }] }) for the day's file
RepairResponse(status, ok, repaired) ==
  [op |-> "repair-xlsx", status |-> status, ok |-> ok, error |-> "none",
   email |-> "absent", remainingTime |-> 0, repaired |-> repaired]

\* app.post('/repair-xlsx', ...) up to the await of writeFile inside
\* repairXlsxFile (readFile has resolved with the file as it is); keyOk:
\* SEND_TRIGGER_KEY unset or matched
StartRepair(p, keyOk) ==
  /\ pc[p] = "idle"
  /\ kind' = [kind EXCEPT ![p] = "repair"]
  /\ IF ~keyOk
     THEN /\ pc' = [pc EXCEPT ![p] = "done"]
          /\ resp' = [resp EXCEPT ![p] = RepairResponse(403, FALSE, "absent")]
          /\ UNCHANGED workbook
     ELSE IF ~xlsx.exists
     THEN /\ pc' = [pc EXCEPT ![p] = "done"]
          /\ resp' = [resp EXCEPT ![p] = RepairResponse(200, TRUE, "absent")]
          /\ UNCHANGED workbook
     ELSE IF ~repairXlsxFile(xlsx).changed
     THEN /\ pc' = [pc EXCEPT ![p] = "done"]
          /\ resp' = [resp EXCEPT ![p] = RepairResponse(200, TRUE, "false")]
          /\ UNCHANGED workbook
     ELSE /\ pc' = [pc EXCEPT ![p] = "rewriting"]
          /\ workbook' = [workbook EXCEPT ![p] = repairXlsxFile(xlsx).file]
          /\ UNCHANGED resp
  /\ UNCHANGED <<cfgVars, gateVars, handoffs, mobile, retryVars, out, xlsx, otpVars, now>>

\* repairXlsxFile: workbook.xlsx.writeFile resolves; the handler answers
RepairWritten(p) ==
  /\ pc[p] = "rewriting"
  /\ xlsx' = workbook[p]
  /\ workbook' = [workbook EXCEPT ![p] = NoBook]
  /\ pc' = [pc EXCEPT ![p] = "done"]
  /\ resp' = [resp EXCEPT ![p] = RepairResponse(200, TRUE, "true")]
  /\ UNCHANGED <<cfgVars, gateVars, handoffs, kind, mobile, retryVars, out, otpVars, now>>

\* repairXlsxFile: workbook.xlsx.writeFile rejects; the file's entry in
\* results carries the error
RepairWriteFail(p) ==
  /\ pc[p] = "rewriting"
  /\ workbook' = [workbook EXCEPT ![p] = NoBook]
  /\ pc' = [pc EXCEPT ![p] = "done"]
  /\ resp' = [resp EXCEPT ![p] = RepairResponse(200, TRUE, "error")]
  /\ UNCHANGED <<cfgVars, gateVars, handoffs, kind, mobile, retryVars, out, xlsx, otpVars, now>>

\* ------------------------------------------------------ the day's ledger
K_v5 == <<"5">>
K_vPune == <<"P", "u", "n", "e">>
K_vX == <<"x">>

\* req.body of a /submit-loan request for mobile m: the form's fields, a
\* further field, a field named with blanks around it, a field named added_at
LedgerBodies(m) ==
  { << <<K_LoanAmount, K_v5>>, <<K_mobile, m>> >>,
    << <<K_LoanAmount, K_v5>>, <<K_mobile, m>>, <<K_City, K_vPune>> >>,
    << <<K_mobile, m>>, <<K_PAN1, K_vX>> >>,
    << <<K_mobile, m>>, <<<<" ">> \o K_Email \o <<" ">>, K_vX>> >>,
    << <<K_mobile, m>>, <<K_added_at, K_vX>> >> }

\* A file an earlier defect wrote with its columns one to the right.
ShiftedFile ==
  [exists |-> TRUE,
   headers |-> <<EmptyStr, K_mobile, K_added_at>>,
   rows |-> << <<EmptyStr, Rep("7", 10), toISOString(0)>> >>]

LedgerFiles == {NoFile, PriorFile, ShiftedFile}

\* /submit-loan and /repair-xlsx on the day's file; one attempt per send.
InitLedger == InitWith(LedgerFiles) /\ EMAIL_RETRIES = 1 /\ EMAIL_CONCURRENCY = 1
NextLedger ==
  \/ \E m \in OtpMobiles : SendOtp(m)
  \/ \E m \in OtpMobiles, otp \in generateOTP : VerifyOtp(m, otp)
  \/ \E p \in 1..LedgerCallers, m \in OtpMobiles :
       \E body \in LedgerBodies(m) : StartSubmitWith(p, body)
  \/ \E p \in 1..LedgerCallers : WriteDone(p)
  \/ \E p \in 1..LedgerCallers : WriteFail(p)
  \/ \E p \in 1..LedgerCallers : SendOk(p)
  \/ \E p \in 1..LedgerCallers, e \in Errors : SendFail(p, e)
  \/ \E p \in 1..LedgerCallers : Wake(p)
  \/ \E p \in 1..LedgerCallers, keyOk \in BOOLEAN : StartRepair(p, keyOk)
  \/ \E p \in 1..LedgerCallers : RepairWritten(p)
  \/ \E p \in 1..LedgerCallers : RepairWriteFail(p)
  \/ \E p \in 1..LedgerCallers : Reset(p)
SpecLedger == InitLedger /\ [][NextLedger]_vars

\* Sequences over S of length at most n
SeqsUpTo(S, n) == UNION {[1..k -> S] : k \in 0..n}

\* Header cells of a file found in DATA_DIR: empty, blank, a name, a name
\* with a blank before it; data cells: empty or a value.
HeaderCells == {EmptyStr, <<" ">>, <<"a">>, <<" ", "a">>}
DataCells == {EmptyStr, <<"v">>}

\* The worksheets /repair-xlsx can find: any header row of up to MaxCols
\* cells over up to MaxRows data rows of up to MaxCols + 1 cells.
RepairFiles ==
  {[exists |-> TRUE, headers |-> h, rows |-> rs] :
     h \in SeqsUpTo(HeaderCells, MaxCols),
     rs \in SeqsUpTo(SeqsUpTo(DataCells, MaxCols + 1), MaxRows)}

\* repairXlsxFile applied, through /repair-xlsx, to every such worksheet.
InitRepair ==
  /\ InitWith(RepairFiles \cup {NoFile})
  /\ EMAIL_RETRIES = 1 /\ EMAIL_CONCURRENCY = 1 /\ ~smtpConfigured
NextRepair ==
  \/ \E p \in 1..RepairCallers, keyOk \in BOOLEAN : StartRepair(p, keyOk)
  \/ \E p \in 1..RepairCallers : RepairWritten(p)
  \/ \E p \in 1..RepairCallers : RepairWriteFail(p)
  \/ \E p \in 1..RepairCallers : Reset(p)
SpecRepair == InitRepair /\ [][NextRepair]_vars

\* ------------------------------------------------- the dispatcher's claims
\* Calls between a completed acquireEmailSlot and their releaseEmailSlot.
InFlight == {p \in Callers : pc[p] \in {"sending", "sleeping"}}

\* C1: the calls holding a slot never outnumber EMAIL_CONCURRENCY, and
\* emailActive stays within 0..EMAIL_CONCURRENCY.
C1_AdmissionBounded ==
  /\ emailActive \in 0..EMAIL_CONCURRENCY
  /\ Cardinality(InFlight) <= EMAIL_CONCURRENCY

C1_Witness ==
  /\ EMAIL_CONCURRENCY = 2
  /\ Cardinality(InFlight) = 2
  /\ Len(emailQueue) >= 1

\* C2: waiters leave emailQueue only from its head, newcomers join at its
\* tail, and nobody is admitted directly while somebody waits.
C2_FifoAdmission ==
  [][/\ \A p \in Callers :
          (pc[p] = "waiting" /\ pc'[p] # "waiting") =>
            (p = Head(emailQueue) /\ emailQueue' = Tail(emailQueue) /\ pc'[p] = "sending")
     /\ \A p \in Callers :
          (pc[p] = "idle" /\ pc'[p] = "sending") => emailQueue = <<>>
     /\ \A p \in Callers :
          (pc[p] = "idle" /\ pc'[p] = "waiting") => emailQueue' = Append(emailQueue, p)
     /\ ToSet(emailQueue') = {p \in Callers : pc'[p] = "waiting"}]_vars

C2_Witness ==
  /\ handoffs >= 2
  /\ Len(emailQueue) >= 1

\* C3: with every send attempt resolving, a call that reaches acquireEmailSlot
\* eventually returns an outcome (which it can only do after being admitted:
\* only a call that is sending or sleeping settles).
C3_EveryCallerReturns ==
  \A p \in 1..GateCallers :
    (pc[p] \in {"waiting", "sending", "sleeping"}) ~> (pc[p] = "done" /\ out[p].tag = "returned")

C3_Witness ==
  \E p \in Callers : pc[p] = "done" /\ out[p].tag = "returned" /\ handoffs >= 1
                      /\ Len(emailQueue) >= 1

\* C4: while somebody waits, every slot is taken.
C4_NoIdleSlot == emailQueue # <<>> => emailActive = EMAIL_CONCURRENCY

C4_Witness ==
  /\ handoffs >= 1
  /\ emailQueue # <<>>
  /\ \E p \in Callers : pc[p] = "done"

\* C5: emailActive is the number of admitted calls that have not finished;
\* a call that returned or threw holds no slot.
C5_SlotsMatchInFlight ==
  /\ emailActive = Cardinality(InFlight)
  /\ \A p \in Callers : pc[p] \in {"idle", "done"} => p \notin InFlight \cup ToSet(emailQueue)

C5_Witness ==
  /\ \E p \in Callers : pc[p] = "done" /\ out[p] = OutSent
  /\ \E p \in Callers : pc[p] = "done" /\ out[p].tag = "returned" /\ ~out[p].ok
                          /\ lastErr[p] # "null"
  /\ emailActive = 0

\* ------------------------------------------------- sendWithRetry's claims
\* sendMail calls made so far by p's sendWithRetry.
Sent(p) == Len(tries[p]) + (IF pc[p] = "sending" THEN 1 ELSE 0)

RECURSIVE Sum(_)
Sum(s) == IF s = <<>> THEN 0 ELSE Head(s) + Sum(Tail(s))

\* p's sendWithRetry has returned.
Retried(p) == pc[p] = "done" /\ tries[p] # <<>>

\* C6: at most EMAIL_RETRIES sendMail calls; nothing is sent after the first
\* success; success is reported exactly when an attempt succeeded; a failure
\* is reported after EMAIL_RETRIES failed attempts, with the last one's error.
C6_RetryContract ==
  \A p \in Callers :
    /\ Sent(p) <= EMAIL_RETRIES
    /\ \A k \in 1..Len(tries[p]) : tries[p][k] = "ok" => (k = Len(tries[p]) /\ pc[p] = "done")
    /\ Retried(p) =>
         /\ out[p].tag = "returned"
         /\ out[p].ok <=> "ok" \in ToSet(tries[p])
         /\ ~out[p].ok =>
              /\ Len(tries[p]) = EMAIL_RETRIES
              /\ out[p].error = String(tries[p][Len(tries[p])])

C6_Witness ==
  /\ EMAIL_RETRIES = 3
  /\ \E p \in Callers : /\ Retried(p)
                          /\ tries[p] = <<"ECONNREFUSED", "ECONNREFUSED", "ETIMEDOUT">>
                          /\ out[p] = OutFailed(String("ETIMEDOUT"))

\* C7: the wait after the failed attempt number k (from 0) is 2^k * 1000 ms;
\* failing twice and succeeding on the third attempt of three reports success
\* with 3000 ms of backoff behind it.
C7_Backoff ==
  \A p \in Callers :
    /\ Len(waits[p]) = Cardinality({k \in 1..Len(tries[p]) : tries[p][k] # "ok"})
    /\ \A k \in 1..Len(waits[p]) : waits[p][k] = (2 ^ (k - 1)) * 1000
    /\ (EMAIL_RETRIES = 3 /\ Retried(p) /\ Len(tries[p]) = 3 /\ tries[p][3] = "ok") =>
         (out[p] = OutSent /\ Sum(waits[p]) = 3000)

C7_Witness ==
  /\ EMAIL_RETRIES = 3
  /\ \E p \in Callers : Retried(p) /\ tries[p] = <<"ETIMEDOUT", "ECONNREFUSED", "ok">>
                          /\ waits[p] = <<1000, 2000>>

\* ------------------------------------------------------ the OTP's claims
\* What POST /verify-otp with (m, otp) does in the current state.
Verify(m, otp) == verifyOtp(otpStore, m, otp, now)

\* The spec's NotFound: no live record, or a record past its expiry window.
NotFound(r) == r.error \in {"OTP expired or not sent", "OTP expired"}
TooManyAttempts(r) == r.error = "Too many attempts. Request new OTP"

\* A code as /verify-otp can receive it.
CodeInputs == OtpInputs \ {<<>>}

\* C8: one verified issuance admits at most one accepted submission, also
\* when two submissions for the identifier are in progress at once.
C8_SingleUse == \A m \in OtpMobiles : accepted[m] <= 1

\* C9 as claimed: once three verifies with a wrong code have been made against
\* an issuance, the next verify for the identifier yields NotFound.
C9_NextVerifyNotFound ==
  \A m \in OtpMobiles, otp \in CodeInputs :
    wrong[m] >= MAX_OTP_ATTEMPTS => NotFound(Verify(m, otp).res)

\* C9 amended: after three verifies with a wrong code the record is still
\* stored, with attempts = 3; the next verify, whatever its code, is rejected
\* and deletes the record, as TooManyAttempts while the record is within its
\* expiry window; verifies after that yield NotFound.
C9_NextVerifyRejected ==
  \A m \in OtpMobiles, otp \in CodeInputs :
    wrong[m] >= MAX_OTP_ATTEMPTS =>
      LET r == Verify(m, otp)
      IN /\ ~r.res.ok
         /\ ~Has(r.store, m)
         /\ Has(otpStore, m) =>
              /\ otpStore[m].attempts = MAX_OTP_ATTEMPTS
              /\ now - otpStore[m].timestamp <= OTP_EXPIRY => TooManyAttempts(r.res)
              /\ now - otpStore[m].timestamp > OTP_EXPIRY => NotFound(r.res)
         /\ ~Has(otpStore, m) => NotFound(r.res)

C9_Witness ==
  \E m \in OtpMobiles :
    /\ wrong[m] > MAX_OTP_ATTEMPTS
    /\ ~Has(otpStore, m)
    /\ accepted[m] = 0
    /\ now = 0

\* The correct code for m's current issuance, typed with or without blanks.
Correct(m, otp) == Has(otpStore, m) /\ otp # <<>> /\ Trim(otp) = otpStore[m].otp
InWindow(m) == Has(otpStore, m) /\ now - otpStore[m].timestamp <= OTP_EXPIRY

\* C10 as claimed: the correct code, within the window and before three
\* mismatches, succeeds, and an issuance yields success only once.
C10_SuccessExactlyOnce ==
  \A m \in OtpMobiles :
    /\ \A otp \in CodeInputs :
         (Correct(m, otp) /\ InWindow(m) /\ wrong[m] < MAX_OTP_ATTEMPTS) => Verify(m, otp).res.ok
    /\ successes[m] <= 1

\* C10 amended: while the issuance's record is stored, the correct code,
\* within the window and before three mismatches, succeeds and leaves the
\* record verified, on every such call and not only on the first.
C10_SuccessEveryTime ==
  \A m \in OtpMobiles :
    /\ \A otp \in CodeInputs :
         (Correct(m, otp) /\ InWindow(m) /\ wrong[m] < MAX_OTP_ATTEMPTS) =>
           LET r == Verify(m, otp)
           IN /\ r.res.ok /\ r.res.status = 200
              /\ r.store = MapSet(otpStore, m, [otpStore[m] EXCEPT !.verified = TRUE])
    /\ (successes[m] >= 1 /\ Has(otpStore, m)) => otpStore[m].verified

C10_Witness ==
  \E m \in OtpMobiles :
    /\ successes[m] >= 2
    /\ Has(otpStore, m) /\ otpStore[m].verified
    /\ wrong[m] = 2
    /\ now = 600000

\* ------------------------------------------------ expiry, cooldown, reissue
\* C11: a record past the expiry window counts as absent for every handler
\* that reads it: a verify against it fails and deletes it, and /submit-loan
\* accepts a submission (goes on to append it) only on a record that is
\* stored, verified and within the window.
C11_ExpiredIsAbsent ==
  [][/\ \A m \in OtpMobiles, otp \in CodeInputs :
          (Has(otpStore, m) /\ isExpired(otpStore[m], now)) =>
            (~Verify(m, otp).res.ok /\ ~Has(Verify(m, otp).store, m))
     /\ \A p \in Callers :
          (pc[p] = "idle" /\ pc'[p] = "writing") =>
            /\ Has(otpStore, mobile'[p])
            /\ otpStore[mobile'[p]].verified
            /\ ~isExpired(otpStore[mobile'[p]], now)]_vars

\* What POST /send-otp for m would do at instant t on the current table.
Issue(m, t) == sendOtp(otpStore, m, Code1, t)
RateLimited(r) == r.status = 429
\* Instants from now on at which m's record is still within the cooldown.
CoolingAt(m) ==
  {t \in Instants : t >= now /\ Has(otpStore, m) /\ t - otpStore[m].timestamp < OTP_RESEND_COOLDOWN}

\* C12 as claimed: an issue within the cooldown is rate-limited, leaves the
\* table as it is, and its remainingSeconds is smaller at every later instant.
C12_RemainingStrictlyDecreases ==
  \A m \in OtpMobiles :
    /\ now \in CoolingAt(m) => (RateLimited(Issue(m, now).res) /\ Issue(m, now).store = otpStore)
    /\ \A t1, t2 \in CoolingAt(m) :
         t1 < t2 => Issue(m, t2).res.remainingTime < Issue(m, t1).res.remainingTime

\* C12 amended: an issue within the cooldown is rate-limited and leaves the
\* table as it is; remainingSeconds is the remaining cooldown rounded up to
\* whole seconds (1..120), so it never grows as time advances and is smaller
\* once a full second has passed, but is the same at two instants within one
\* second.
C12_RemainingWholeSeconds ==
  \A m \in OtpMobiles :
    /\ now \in CoolingAt(m) => (RateLimited(Issue(m, now).res) /\ Issue(m, now).store = otpStore)
    /\ \A t \in CoolingAt(m) :
         LET left == OTP_RESEND_COOLDOWN - (t - otpStore[m].timestamp)
             secs == Issue(m, t).res.remainingTime
         IN /\ secs \in 1..(OTP_RESEND_COOLDOWN \div 1000)
            /\ 1000 * (secs - 1) < left /\ left <= 1000 * secs
    /\ \A t1, t2 \in CoolingAt(m) :
         /\ t1 < t2 => Issue(m, t2).res.remainingTime <= Issue(m, t1).res.remainingTime
         /\ t1 + 1000 <= t2 => Issue(m, t2).res.remainingTime < Issue(m, t1).res.remainingTime
    /\ (Has(otpStore, m) /\ now - otpStore[m].timestamp >= OTP_RESEND_COOLDOWN) =>
         ~RateLimited(Issue(m, now).res)

C12_Witness ==
  \E m \in OtpMobiles :
    /\ Has(otpStore, m) /\ otpStore[m].timestamp = 0 /\ otpStore[m].verified
    /\ now = 500
    /\ Issue(m, now).res.remainingTime = 120
    /\ Issue(m, 1000).res.remainingTime = 119

\* C13: an accepted issue stores a fresh record (attempts 0, not verified) in
\* place of whatever was stored, so from an issuance until a verify succeeds
\* against it the record is unverified and /submit-loan admits no submission
\* for the identifier.
C13_ReissueRevokes ==
  [][/\ \A m \in OtpMobiles, otp \in generateOTP :
          sendOtp(otpStore, m, otp, now).res.ok =>
            sendOtp(otpStore, m, otp, now).store[m] =
              [otp |-> otp, timestamp |-> now, attempts |-> 0, verified |-> FALSE]
     /\ \A m \in OtpMobiles :
          (Has(otpStore, m) /\ successes[m] = 0) => notVerified(otpStore, m)
     /\ \A p \in Callers :
          (pc[p] = "idle" /\ pc'[p] = "writing") => successes[mobile'[p]] >= 1]_vars

\* A submission admitted on the previous code is still being written when a
\* new issuance has replaced the verified record by an unverified one.
C13_Witness ==
  \E m \in OtpMobiles, p \in Callers :
    /\ pc[p] = "writing" /\ mobile[p] = m
    /\ Has(otpStore, m) /\ otpStore[m] = freshRecord(otpStore[m].otp, OTP_RESEND_COOLDOWN)
    /\ successes[m] = 0
    /\ now = OTP_RESEND_COOLDOWN

\* ------------------------------------------------------ the ledger's claims
\* C14: every successful append (writeFile of /submit-loan resolving) leaves
\* the day's file with one data row more than it had, so that K appends give
\* K rows and no earlier submission is lost.
C14_RowCountMonotonic ==
  [][\A p \in Callers : WriteDone(p) => Len(xlsx'.rows) = Len(xlsx.rows) + 1]_vars

\* The columns of a header row other than added_at, in order.
BeforeStamp(headers) ==
  LET NotStamp(h) == h # K_added_at IN SelectSeq(headers, NotStamp)
\* The column of name h in a header row that has it.
ColumnOf(headers, h) == CHOOSE k \in 1..Len(headers) : headers[k] = h
\* The header the claimed reconciliation gives: the old columns in their
\* order, then the incoming columns not yet present, then added_at.
Reconciled(old, incoming) ==
  LET Fresh(h) == h \notin ToSet(old)
  IN BeforeStamp(old) \o SelectSeq(BeforeStamp(incoming), Fresh) \o <<K_added_at>>

\* C15: a successful append to an existing day's file gives the old header
\* with the record's new fields inserted before added_at, keeps every prior
\* data row under its columns, and leaves the prior rows' cells in the new
\* columns empty.
C15_SchemaOrderMonotonic ==
  [][\A p \in Callers :
       (WriteDone(p) /\ xlsx.exists /\ ~shiftDetected(xlsx)) =>
         LET expected == Reconciled(xlsx.headers, workbook[p].headers)
         IN /\ xlsx'.headers = expected
            /\ Len(xlsx'.rows) = Len(xlsx.rows) + 1
            /\ \A r \in 1..Len(xlsx.rows), k \in 1..Len(expected) :
                 CellAt(xlsx'.rows[r], k) =
                   IF expected[k] \in ToSet(xlsx.headers)
                   THEN CellAt(xlsx.rows[r], ColumnOf(xlsx.headers, expected[k]))
                   ELSE EmptyStr]_vars

\* C16: on a file with the shift pattern repairXlsxFile reports a change and
\* the header it leaves starts with a non-empty cell; repairing the result
\* again reports no change and leaves it as it is; a file without the pattern
\* is reported unchanged and not rewritten.
C16_RepairIdempotentTargeted ==
  LET r == repairXlsxFile(xlsx)
  IN /\ shiftDetected(xlsx) =>
          /\ r.changed
          /\ CellAt(r.file.headers, 1) # EmptyStr
          /\ repairXlsxFile(r.file) = [changed |-> FALSE, file |-> r.file]
     /\ ~shiftDetected(xlsx) => (~r.changed /\ r.file = xlsx)
     /\ \A p \in Callers : pc[p] = "rewriting" => shiftDetected(xlsx)

\* Checked alongside C16: the same statement over the files whose header row
\* has at least one cell that is not blank (it holds there).
C16_WithNamedColumn ==
  (\E k \in 1..Len(xlsx.headers) : Trim(xlsx.headers[k]) # EmptyStr) =>
    C16_RepairIdempotentTargeted

\* ------------------------------------------- the dispatcher's further claims
\* p's /submit-loan has answered after its dispatch gave up on delivery.
DeliveryFailed(p) ==
  /\ pc[p] = "done" /\ kind[p] = "submit"
  /\ out[p].tag = "returned" /\ ~out[p].ok
  /\ Len(tries[p]) = EMAIL_RETRIES /\ "ok" \notin ToSet(tries[p])

\* C17: when the dispatch after an accepted submission fails after all its
\* attempts, the response still reports the append as done (200, ok), the
\* day's file keeps the appended row, and the response reports the e-mail as
\* not sent.
C17_FailedDispatchReported ==
  \A p \in Callers :
    DeliveryFailed(p) =>
      /\ resp[p].status = 200 /\ resp[p].ok
      /\ xlsx.exists /\ Len(xlsx.rows) >= 1
      /\ resp[p].email = "false"

\* C18: a dispatch that finds no file for the day returns the NoFile outcome
\* in the step it starts in: no sendMail call, emailActive and emailQueue as
\* they were, no waiter resumed.
C18_NoFileTouchesNothing ==
  [][\A p \in Callers :
       (pc[p] = "idle" /\ pc'[p] # "idle" /\ kind'[p] \in {"cron", "send-today"}
          /\ resp'[p].status # 403 /\ ~xlsx.exists) =>
         /\ pc'[p] = "done" /\ out'[p] = OutNoFile
         /\ tries'[p] = <<>> /\ waits'[p] = <<>>
         /\ emailActive' = emailActive /\ emailQueue' = emailQueue
         /\ \A q \in Callers \ {p} : pc'[q] = pc[q]]_vars

C18_Witness ==
  /\ ~xlsx.exists
  /\ emailActive = 0 /\ emailQueue = <<>>
  /\ \E p \in Callers : /\ pc[p] = "done" /\ kind[p] = "send-today" /\ out[p] = OutNoFile
                          /\ resp[p] = Response("send-today", 200, FALSE, "No file", "absent", 0)
  /\ \E p \in Callers : pc[p] = "done" /\ kind[p] = "cron" /\ out[p] = OutNoFile

\* C19: a backoff wait only precedes a further attempt: no call sleeps after
\* its last attempt has failed, and a send that failed all EMAIL_RETRIES
\* attempts has waited EMAIL_RETRIES - 1 times when it reports failure.
C19_NoWaitAfterLastFailure ==
  \A p \in Callers :
    /\ pc[p] = "sleeping" => Len(tries[p]) < EMAIL_RETRIES
    /\ (Retried(p) /\ "ok" \notin ToSet(tries[p])) => Len(waits[p]) = EMAIL_RETRIES - 1

\* A worksheet as the ledger's invariant wants it: every data row as wide as
\* the header, no empty and no repeated column name, added_at once and last.
WellFormed(file) ==
  /\ \A r \in 1..Len(file.rows) : Len(file.rows[r]) = Len(file.headers)
  /\ \A k \in 1..Len(file.headers) : file.headers[k] # EmptyStr
  /\ \A j, k \in 1..Len(file.headers) : file.headers[j] = file.headers[k] => j = k
  /\ file.headers # <<>> /\ file.headers[Len(file.headers)] = K_added_at

\* C20: every file written by an append or by a repair is well-formed, also
\* when the submitted record carries an added_at key of its own.
C20_WrittenFilesWellFormed ==
  [][(\E p \in Callers : WriteDone(p) \/ RepairWritten(p)) => WellFormed(xlsx')]_vars

\* A data row moved one cell to the left and filled with empty cells up to
\* width.
ShiftedLeft(row, width) ==
  LET moved == SubSeq(row, 2, Len(row))
  IN IF Len(moved) >= width THEN moved
     ELSE moved \o [k \in 1..(width - Len(moved)) |-> EmptyStr]

\* C21: on a file with the shift pattern the repaired header is the old header
\* without its leading empty cell, every other header cell kept as it was and
\* in order, and every data row is moved left by exactly one cell and padded
\* with empty cells to the repaired header's length, so that each value stays
\* under the column name it was under.
C21_RepairDropsLeadingCellOnly ==
  shiftDetected(xlsx) =>
    LET repaired == repairXlsxFile(xlsx).file
        corrected == Tail(xlsx.headers)
    IN /\ repaired.headers = corrected
       /\ Len(repaired.rows) = Len(xlsx.rows)
       /\ \A r \in 1..Len(xlsx.rows) :
            repaired.rows[r] = ShiftedLeft(xlsx.rows[r], Len(corrected))

\* Checked alongside C21: the same statement over the files whose header
\* cells behind the leading empty one are all names without blanks around
\* them (it holds there).
C21_WithCleanHeader ==
  (\A k \in 2..Len(xlsx.headers) :
     xlsx.headers[k] # EmptyStr /\ Trim(xlsx.headers[k]) = xlsx.headers[k]) =>
    C21_RepairDropsLeadingCellOnly

====
